---- MODULE Spec2Model ----
(***************************************************************************)
(* Model of the comprust Huffman codec (src/huffman/mod.rs, tree.rs).      *)
(*                                                                         *)
(* u32 values are pairs <<hi, lo>> of 16-bit halves (value hi*2^16 + lo),  *)
(* so that the full 32-bit width, its big-endian bytes and its overflow    *)
(* are exact.  A "wide" number is the same pair with an unbounded hi half; *)
(* it is used only by the properties, to state mathematical sums.          *)
(* Symbols (Rust char) are Unicode scalar values, bytes are 0..255.        *)
(***************************************************************************)
EXTENDS Integers, Sequences, FiniteSets, TLC

VARIABLES
    pc,       \* position of the run
    profile,  \* build profile: "debug" (overflow checks) or "release"
    text,     \* encode's input text, a sequence of symbols
    out,      \* bytes encode wrote to its writer
    encRet,   \* encode's result
    input,    \* bytes handed to decode's reader
    tamper,   \* how input was derived from out
    decOut,   \* symbols decode wrote to its writer
    decRet,   \* decode's result
    counts,   \* from_counts: the frequency table
    pending,  \* from_counts: table entries not yet iterated
    heap,     \* from_counts: the BinaryHeap's backing vector
    last,     \* from_counts: the links of the latest merge
    result    \* from_counts: the returned value

vars == <<pc, profile, text, out, encRet, input, tamper, decOut, decRet,
          counts, pending, heap, last, result>>

-----------------------------------------------------------------------------
(* Bounds *)

MaxLen == 4      \* longest enumerated text
MaxCount == 2    \* largest small count in an enumerated frequency table

-----------------------------------------------------------------------------
(* 32-bit unsigned arithmetic *)

Half == 2 ^ 16

U32(n) == <<n \div Half, n % Half>>

WAdd(x, y) ==
    LET lo == x[2] + y[2]
    IN  <<x[1] + y[1] + (lo \div Half), lo % Half>>

WLess(x, y) == x[1] < y[1] \/ (x[1] = y[1] /\ x[2] < y[2])

Overflows(x, y) == WAdd(x, y)[1] >= Half

WrappingAdd(x, y) == LET s == WAdd(x, y) IN <<s[1] % Half, s[2]>>

to_be_bytes(x) == <<x[1] \div 256, x[1] % 256, x[2] \div 256, x[2] % 256>>

from_be_bytes(b) == <<b[1] * 256 + b[2], b[3] * 256 + b[4]>>

Profiles == {"debug", "release"}

-----------------------------------------------------------------------------
(* Links and their ordering *)

Leaf(w, c) == [kind |-> "Leaf", weight |-> w, char |-> c]

Node(w, l, r, c) == [kind |-> "Node", weight |-> w, char |-> c, left |-> l, right |-> r]

\* (a.weight, a.char).cmp(&(b.weight, b.char))
TupleCmp(a, b) ==
    IF WLess(a.weight, b.weight) THEN "Less"
    ELSE IF WLess(b.weight, a.weight) THEN "Greater"
    ELSE IF a.char < b.char THEN "Less"
    ELSE IF a.char > b.char THEN "Greater"
    ELSE "Equal"

WeightOnlyCmp(self, other) ==
    IF WLess(other.weight, self.weight) THEN "Less"
    ELSE IF WLess(self.weight, other.weight) THEN "Greater"
    ELSE "Equal"

\* Ord for Link: reversed, so that the max-heap pops the smallest link
LinkCmp(self, other) == TupleCmp(other, self)

LinkLe(a, b) == LinkCmp(a, b) # "Greater"

-----------------------------------------------------------------------------
(* std BinaryHeap over a vector; positions are 0-based as in the library *)

RECURSIVE SiftUpHole(_, _, _, _)
SiftUpHole(data, elt, start, pos) ==
    IF pos > start
    THEN LET parent == (pos - 1) \div 2
         IN  IF LinkLe(elt, data[parent + 1])
             THEN [data EXCEPT ![pos + 1] = elt]
             ELSE SiftUpHole([data EXCEPT ![pos + 1] = data[parent + 1]], elt, start, parent)
    ELSE [data EXCEPT ![pos + 1] = elt]

SiftUp(data, start, pos) == SiftUpHole(data, data[pos + 1], start, pos)

RECURSIVE SiftDownHole(_, _, _, _)
SiftDownHole(data, elt, start, hole) ==
    LET end == Len(data)
        child == 2 * hole + 1
    IN  IF end >= 2 /\ child <= end - 2
        THEN LET c == IF LinkLe(data[child + 1], data[child + 2]) THEN child + 1 ELSE child
             IN  SiftDownHole([data EXCEPT ![hole + 1] = data[c + 1]], elt, start, c)
        ELSE IF child = end - 1
        THEN SiftUpHole([data EXCEPT ![hole + 1] = data[child + 1]], elt, start, child)
        ELSE SiftUpHole(data, elt, start, hole)

SiftDownToBottom(data, pos) == SiftDownHole(data, data[pos + 1], pos, pos)

HeapPush(data, item) == SiftUp(Append(data, item), 0, Len(data))

\* the popped item and the remaining vector; data is non-empty
HeapPop(data) ==
    LET item == data[Len(data)]
        rest == SubSeq(data, 1, Len(data) - 1)
    IN  IF rest = <<>>
        THEN [item |-> item, heap |-> rest]
        ELSE [item |-> rest[1], heap |-> SiftDownToBottom([rest EXCEPT ![1] = item], 0)]

-----------------------------------------------------------------------------
(* HuffmanTree::from_counts *)

NoTree == [kind |-> "None"]
Panic == [kind |-> "Panic"]
SomeTree(root, table) == [kind |-> "Some", root |-> root, counts |-> table]

NewLinkRightChar(right, left) ==
    Node(WrappingAdd(left.weight, right.weight), left, right, right.char)

\* the link that replaces the two popped links
NewLink(right, left) ==
    Node(WrappingAdd(left.weight, right.weight), left, right, left.char)

MergeOf(right, p2) ==
    [right |-> right, left |-> p2.item, rest |-> p2.heap,
     overflow |-> Overflows(p2.item.weight, right.weight),
     node |-> NewLink(right, p2.item)]

SecondPop(p1) == MergeOf(p1.item, HeapPop(p1.heap))

\* one iteration of the build loop: the two pops and the new link
MergeLinks(h) == SecondPop(HeapPop(h))

RECURSIVE PushAll(_, _, _)
PushAll(h, table, order) ==
    IF order = <<>> THEN h
    ELSE PushAll(HeapPush(h, Leaf(table[Head(order)], Head(order))), table, Tail(order))

RECURSIVE BuildLoop(_, _, _)
BuildStep(m, table, prof) ==
    IF m.overflow /\ prof = "debug" THEN Panic
    ELSE BuildLoop(HeapPush(m.rest, m.node), table, prof)

BuildLoop(h, table, prof) ==
    IF Len(h) > 1 THEN BuildStep(MergeLinks(h), table, prof)
    ELSE IF h = <<>> THEN NoTree
    ELSE SomeTree(HeapPop(h).item, table)

\* order is the sequence in which the HashMap yields its keys
from_counts(table, order, prof) == BuildLoop(PushAll(<<>>, table, order), table, prof)

RECURSIVE Orders(_)
Orders(S) ==
    IF S = {} THEN {<<>>}
    ELSE UNION {{<<c>> \o o : o \in Orders(S \ {c})} : c \in S}

-----------------------------------------------------------------------------
(* UTF-8, as String::as_bytes, char::to_string and String::from_utf8 do it *)

Utf8Char(c) ==
    IF c < 128 THEN <<c>>
    ELSE IF c < 2048 THEN <<192 + (c \div 64), 128 + (c % 64)>>
    ELSE IF c < 65536 THEN <<224 + (c \div 4096), 128 + ((c \div 64) % 64), 128 + (c % 64)>>
    ELSE <<240 + (c \div 262144), 128 + ((c \div 4096) % 64), 128 + ((c \div 64) % 64), 128 + (c % 64)>>

RECURSIVE as_bytes(_)
as_bytes(chars) ==
    IF chars = <<>> THEN <<>> ELSE Utf8Char(Head(chars)) \o as_bytes(Tail(chars))

IsCont(x) == 128 <= x /\ x <= 191

Utf8Invalid == [ok |-> FALSE, chars |-> <<>>]

RECURSIVE Utf8From(_, _, _)
Utf8From(b, i, acc) ==
    IF i > Len(b) THEN [ok |-> TRUE, chars |-> acc]
    ELSE LET b1 == b[i]
             has(k) == i + k <= Len(b)
         IN  IF b1 < 128 THEN Utf8From(b, i + 1, Append(acc, b1))
             ELSE IF 194 <= b1 /\ b1 <= 223
             THEN IF has(1) /\ IsCont(b[i + 1])
                  THEN Utf8From(b, i + 2, Append(acc, (b1 - 192) * 64 + (b[i + 1] - 128)))
                  ELSE Utf8Invalid
             ELSE IF 224 <= b1 /\ b1 <= 239
             THEN IF /\ has(2)
                     /\ IsCont(b[i + 1])
                     /\ IsCont(b[i + 2])
                     /\ (b1 = 224 => b[i + 1] >= 160)
                     /\ (b1 = 237 => b[i + 1] <= 159)
                  THEN Utf8From(b, i + 3, Append(acc,
                           (b1 - 224) * 4096 + (b[i + 1] - 128) * 64 + (b[i + 2] - 128)))
                  ELSE Utf8Invalid
             ELSE IF 240 <= b1 /\ b1 <= 244
             THEN IF /\ has(3)
                     /\ IsCont(b[i + 1])
                     /\ IsCont(b[i + 2])
                     /\ IsCont(b[i + 3])
                     /\ (b1 = 240 => b[i + 1] >= 144)
                     /\ (b1 = 244 => b[i + 1] <= 143)
                  THEN Utf8From(b, i + 4, Append(acc,
                           (b1 - 240) * 262144 + (b[i + 1] - 128) * 4096
                           + (b[i + 2] - 128) * 64 + (b[i + 3] - 128)))
                  ELSE Utf8Invalid
             ELSE Utf8Invalid

from_utf8(b) == Utf8From(b, 1, <<>>)

-----------------------------------------------------------------------------
(* Frequency table and its serialization *)

Insert(map, k, v) == [x \in (DOMAIN map) \cup {k} |-> IF x = k THEN v ELSE map[x]]

\* the += 1 cannot overflow for the text lengths explored
RECURSIVE count_chars(_)
count_chars(source) ==
    IF source = <<>> THEN <<>>
    ELSE LET map == count_chars(SubSeq(source, 1, Len(source) - 1))
             c == source[Len(source)]
         IN  Insert(map, c, WrappingAdd(IF c \in DOMAIN map THEN map[c] ELSE U32(0), U32(1)))

RECURSIVE SortedSeq(_)
SortedSeq(S) ==
    IF S = {} THEN <<>>
    ELSE LET m == CHOOSE x \in S : \A y \in S : x <= y
         IN  <<m>> \o SortedSeq(S \ {m})

\* a HashMap yields its keys in an order the program does not control:
\* the seed selects one permutation of the key set
RECURSIVE Permute(_, _)
Permute(seq, k) ==
    IF seq = <<>> THEN <<>>
    ELSE LET n == Len(seq)
             i == (k % n) + 1
         IN  <<seq[i]>> \o Permute(SubSeq(seq, 1, i - 1) \o SubSeq(seq, i + 1, n), k \div n)

HashOrder(S, seed) == Permute(SortedSeq(S), seed)

Seeds == 0 .. 5

RECURSIVE CountBytes(_, _)
CountBytes(table, chars) ==
    IF chars = <<>> THEN <<>>
    ELSE to_be_bytes(table[Head(chars)]) \o CountBytes(table, Tail(chars))

serialize(tree) ==
    LET chars == SortedSeq(DOMAIN tree.counts)
        bytes == as_bytes(chars)
    IN  to_be_bytes(U32(Len(bytes))) \o bytes \o CountBytes(tree.counts, chars)

\* the counts read for chars[i..], or a failed read_exact
RECURSIVE ReadCounts(_, _, _, _)
ReadCounts(chars, i, rest, map) ==
    IF i > Len(chars) THEN [ok |-> TRUE, map |-> map, rest |-> rest]
    ELSE IF Len(rest) < 4 THEN [ok |-> FALSE, map |-> map, rest |-> rest]
    ELSE ReadCounts(chars, i + 1, SubSeq(rest, 5, Len(rest)),
                    Insert(map, chars[i], from_be_bytes(SubSeq(rest, 1, 4))))

Err == [kind |-> "Err"]

TreeRead(t, rest) ==
    IF t.kind = "None" THEN Err
    ELSE IF t.kind = "Panic" THEN Panic
    ELSE [kind |-> "Ok", tree |-> t, rest |-> rest]

BuildRead(rc, seed, prof) ==
    IF ~rc.ok THEN Panic
    ELSE TreeRead(from_counts(rc.map, HashOrder(DOMAIN rc.map, seed), prof), rc.rest)

ReadTable(str, rest, seed, prof) ==
    IF ~str.ok THEN Panic
    ELSE BuildRead(ReadCounts(str.chars, 1, rest, <<>>), seed, prof)

ReadChars(bytes, num_bytes, seed, prof) ==
    IF num_bytes[1] > 0 \/ num_bytes[2] > Len(bytes) - 4 THEN Err
    ELSE ReadTable(from_utf8(SubSeq(bytes, 5, 4 + num_bytes[2])),
                   SubSeq(bytes, 5 + num_bytes[2], Len(bytes)), seed, prof)

deserialize(bytes, seed, prof) ==
    IF Len(bytes) < 4 THEN Err
    ELSE ReadChars(bytes, from_be_bytes(SubSeq(bytes, 1, 4)), seed, prof)

-----------------------------------------------------------------------------
(* Dictionary and bit packing *)

RECURSIVE DictLoop(_, _)
DictLoop(frontier, codes) ==
    IF frontier = <<>> THEN codes
    ELSE LET top == frontier[Len(frontier)]
             rest == SubSeq(frontier, 1, Len(frontier) - 1)
         IN  IF top.link.kind = "Leaf"
             THEN DictLoop(rest, Insert(codes, top.link.char, top.code))
             ELSE DictLoop(rest \o <<[link |-> top.link.left, code |-> Append(top.code, 0)],
                                    [link |-> top.link.right, code |-> Append(top.code, 1)]>>,
                           codes)

build_dictionary(tree) == DictLoop(<<[link |-> tree.root, code |-> <<>>]>>, <<>>)

RECURSIVE encode_with_dictionary(_, _)
encode_with_dictionary(txt, dict) ==
    IF txt = <<>> THEN <<>>
    ELSE dict[Head(txt)] \o encode_with_dictionary(Tail(txt), dict)

PadAlwaysAdds(num_bits) == 8 - (num_bits % 8)

PadLen(num_bits) == IF num_bits % 8 > 0 THEN 8 - (num_bits % 8) ELSE 0

\* one byte from eight bits, index 0 of the chunk being the least significant
ByteOf(bits, k) ==
    bits[k + 1] + 2 * bits[k + 2] + 4 * bits[k + 3] + 8 * bits[k + 4]
    + 16 * bits[k + 5] + 32 * bits[k + 6] + 64 * bits[k + 7] + 128 * bits[k + 8]

\* BitVec as Read: whole bytes only
read_to_end(bits) == [j \in 1 .. (Len(bits) \div 8) |-> ByteOf(bits, 8 * (j - 1))]

\* BitVec::<u8, Lsb0>::from_vec
from_vec(buffer) ==
    [j \in 1 .. 8 * Len(buffer) |-> (buffer[((j - 1) \div 8) + 1] \div (2 ^ ((j - 1) % 8))) % 2]

-----------------------------------------------------------------------------
(* encode and decode *)

FrameOut(header, data, pad) ==
    [kind |-> "Ok", value |-> Len(data),
     written |-> header \o <<pad>> \o read_to_end(data \o [j \in 1 .. pad |-> 1])]

Frame(header, data) == FrameOut(header, data, PadLen(Len(data)))

EncodeTree(txt, tree) ==
    IF tree.kind # "Some" THEN [kind |-> "Panic", value |-> 0, written |-> <<>>]
    ELSE Frame(serialize(tree), encode_with_dictionary(txt, build_dictionary(tree)))

TreeFrom(table, seed, prof) == from_counts(table, HashOrder(DOMAIN table, seed), prof)

encode(txt, seed, prof) == EncodeTree(txt, TreeFrom(count_chars(txt), seed, prof))

\* one iteration of decode's for loop
WalkStep(root, st, b) ==
    LET atLeaf == st.current.kind = "Leaf"
        cur == IF atLeaf THEN root ELSE st.current
    IN  [current |-> IF cur.kind = "Node" THEN (IF b = 1 THEN cur.right ELSE cur.left) ELSE cur,
         written |-> IF atLeaf THEN st.written \o Utf8Char(st.current.char) ELSE st.written]

\* the for loop over bits[lo .. hi], started in state st
RECURSIVE Walk(_, _, _, _, _)
\* both branches are the same: the test only makes the first half of the
\* loop be evaluated before the second half starts
WalkRest(bits, lo, hi, root, half) ==
    IF half.current.kind = "Leaf"
    THEN Walk(bits, lo, hi, root, half)
    ELSE Walk(bits, lo, hi, root, half)

Walk(bits, lo, hi, root, st) ==
    IF lo > hi THEN st
    ELSE IF lo = hi THEN WalkStep(root, st, bits[lo])
    ELSE WalkRest(bits, ((lo + hi) \div 2) + 1, hi, root,
                  Walk(bits, lo, (lo + hi) \div 2, root, st))

\* after the final bit: at a leaf, or "Invalid code"
Emit(w) ==
    IF w.current.kind = "Leaf"
    THEN [kind |-> "Ok", written |-> w.written \o Utf8Char(w.current.char)]
    ELSE [kind |-> "Panic", written |-> w.written]

WalkBits(root, bits_padded, bits) ==
    IF bits_padded > Len(bits) THEN [kind |-> "Panic", written |-> <<>>]
    ELSE Emit(Walk(bits, 1, Len(bits) - bits_padded, root,
                   [current |-> root, written |-> <<>>]))

DecodeBits(d) ==
    IF d.kind # "Ok" THEN [kind |-> d.kind, written |-> <<>>]
    ELSE IF d.rest = <<>> THEN [kind |-> "Err", written |-> <<>>]
    ELSE WalkBits(d.tree.root, d.rest[1], from_vec(SubSeq(d.rest, 2, Len(d.rest))))

decode(bytes, seed, prof) == DecodeBits(deserialize(bytes, seed, prof))

-----------------------------------------------------------------------------
(* Tree construction, step by step *)

BuildAlphabet == {97, 98, 99, 233}

CountValues == {U32(n) : n \in 0 .. MaxCount} \cup {<<32768, 0>>, <<32768, 1>>}

Tables == UNION {[S -> CountValues] : S \in SUBSET BuildAlphabet}

NoMerge == [kind |-> "None"]

InitBuild ==
    /\ pc = "push"
    /\ profile \in Profiles
    /\ counts \in Tables
    /\ pending = DOMAIN counts
    /\ heap = <<>>
    /\ last = NoMerge
    /\ result = NoTree
    /\ text = <<>> /\ out = <<>> /\ encRet = NoTree
    /\ input = <<>> /\ tamper = "none" /\ decOut = <<>> /\ decRet = NoTree

CodecUnchanged == UNCHANGED <<profile, text, out, encRet, input, tamper, decOut, decRet>>

Push ==
    /\ pc = "push"
    /\ \E c \in pending :
        /\ heap' = HeapPush(heap, Leaf(counts[c], c))
        /\ pending' = pending \ {c}
    /\ UNCHANGED <<pc, counts, last, result>>
    /\ CodecUnchanged

Merged(m) ==
    IF m.overflow /\ profile = "debug"
    THEN /\ pc' = "built"
         /\ result' = Panic
         /\ heap' = m.rest
         /\ UNCHANGED last
    ELSE /\ heap' = HeapPush(m.rest, m.node)
         /\ last' = [kind |-> "Merge", first |-> m.right, second |-> m.left, node |-> m.node]
         /\ UNCHANGED <<pc, result>>

Merge ==
    /\ pc = "push"
    /\ pending = {}
    /\ Len(heap) > 1
    /\ Merged(MergeLinks(heap))
    /\ UNCHANGED <<counts, pending>>
    /\ CodecUnchanged

Popped(p) == result' = SomeTree(p.item, counts) /\ heap' = p.heap

Finish ==
    /\ pc = "push"
    /\ pending = {}
    /\ Len(heap) <= 1
    /\ pc' = "built"
    /\ IF heap = <<>>
       THEN result' = NoTree /\ heap' = heap
       ELSE Popped(HeapPop(heap))
    /\ UNCHANGED <<counts, pending, last>>
    /\ CodecUnchanged

NextBuild == Push \/ Merge \/ Finish

SpecBuild == InitBuild /\ [][NextBuild]_vars

-----------------------------------------------------------------------------
(* The codec: encode a text, hand the bytes (intact or damaged) to decode *)

TextAlphabet == {97, 98, 233}

Fixture == <<97, 97, 97, 97, 98, 98, 99>>

Texts == UNION {[1 .. n -> TextAlphabet] : n \in 0 .. MaxLen} \cup {Fixture}

CorruptBytes == {0, 1, 128, 255}

Init ==
    /\ pc = "start"
    /\ profile \in Profiles
    /\ text \in Texts
    /\ out = <<>> /\ encRet = NoTree
    /\ input = <<>> /\ tamper = "none" /\ decOut = <<>> /\ decRet = NoTree
    /\ counts = <<>> /\ pending = {} /\ heap = <<>> /\ last = NoMerge /\ result = NoTree

BuildUnchanged == UNCHANGED <<counts, pending, heap, last, result>>

Encoded(r) == out' = r.written /\ encRet' = [kind |-> r.kind, value |-> r.value]

Encode ==
    /\ pc = "start"
    /\ \E seed \in Seeds : Encoded(encode(text, seed, profile))
    /\ pc' = "encoded"
    /\ UNCHANGED <<profile, text, input, tamper, decOut, decRet>>
    /\ BuildUnchanged

\* length of the serialized tree and pad byte at the front of out
HeaderLen == 4 + from_be_bytes(SubSeq(out, 1, 4))[2] + 4 * Cardinality(DOMAIN count_chars(text)) + 1

Feed ==
    /\ pc = "encoded"
    /\ encRet.kind = "Ok"
    /\ input' = out
    /\ tamper' = "exact"
    /\ pc' = "ready"
    /\ UNCHANGED <<profile, text, out, encRet, decOut, decRet>>
    /\ BuildUnchanged

Truncate ==
    /\ pc = "encoded"
    /\ encRet.kind = "Ok"
    /\ Len(out) > HeaderLen
    /\ input' = SubSeq(out, 1, Len(out) - 1)
    /\ tamper' = "truncated"
    /\ pc' = "ready"
    /\ UNCHANGED <<profile, text, out, encRet, decOut, decRet>>
    /\ BuildUnchanged

Corrupt ==
    /\ pc = "encoded"
    /\ encRet.kind = "Ok"
    /\ \/ \E k \in 0 .. Len(out) - 1 : input' = SubSeq(out, 1, k)
       \/ \E i \in 1 .. Len(out), v \in CorruptBytes :
            /\ out[i] # v
            /\ input' = [out EXCEPT ![i] = v]
    /\ tamper' = "corrupt"
    /\ pc' = "ready"
    /\ UNCHANGED <<profile, text, out, encRet, decOut, decRet>>
    /\ BuildUnchanged

Decoded(r) == decOut' = r.written /\ decRet' = [kind |-> r.kind]

Decode ==
    /\ pc = "ready"
    /\ \E seed \in Seeds : Decoded(decode(input, seed, profile))
    /\ pc' = "decoded"
    /\ UNCHANGED <<profile, text, out, encRet, input, tamper>>
    /\ BuildUnchanged

Next == Encode \/ Feed \/ Truncate \/ Corrupt \/ Decode

Spec == Init /\ [][Next]_vars

-----------------------------------------------------------------------------
(* Vocabulary of the properties *)

Range(f) == {f[x] : x \in DOMAIN f}

WMul(x, k) == <<x[1] * k + ((x[2] * k) \div Half), (x[2] * k) % Half>>

RECURSIVE WSum(_, _)
WSum(table, S) ==
    IF S = {} THEN <<0, 0>>
    ELSE LET c == CHOOSE x \in S : TRUE
         IN  WAdd(table[c], WSum(table, S \ {c}))

RECURSIVE SubLinks(_)
SubLinks(link) ==
    IF link.kind = "Leaf" THEN {link}
    ELSE {link} \cup SubLinks(link.left) \cup SubLinks(link.right)

RECURSIVE LeafCount(_)
LeafCount(link) ==
    IF link.kind = "Leaf" THEN 1 ELSE LeafCount(link.left) + LeafCount(link.right)

\* total encoded length of a table under a code assignment
RECURSIVE Cost(_, _, _)
Cost(table, dict, S) ==
    IF S = {} THEN <<0, 0>>
    ELSE LET c == CHOOSE x \in S : TRUE
         IN  WAdd(WMul(table[c], Len(dict[c])), Cost(table, dict, S \ {c}))

WMin(X) == CHOOSE x \in X : \A y \in X : ~WLess(y, x)

\* least total length over all full binary trees with leaf set S hanging at depth d
RECURSIVE MinCost(_, _, _)
MinCost(table, S, d) ==
    IF Cardinality(S) = 1
    THEN WMul(table[CHOOSE c \in S : TRUE], d)
    ELSE WMin({WAdd(MinCost(table, A, d + 1), MinCost(table, S \ A, d + 1)) :
               A \in (SUBSET S) \ {{}, S}})

BitAt(payload, j) == (payload[((j - 1) \div 8) + 1] \div (2 ^ ((j - 1) % 8))) % 2

Occurrences(txt, c) == Cardinality({i \in DOMAIN txt : txt[i] = c})

RoundTripRun == pc = "decoded" /\ tamper = "exact"

-----------------------------------------------------------------------------
(* Properties of the codec, checked under Spec *)

\* C1: decoding the exact bytes encode wrote for a non-empty text succeeds and
\* writes back exactly that text, symbol for symbol.
RoundTrip ==
    (RoundTripRun /\ text # <<>>) =>
        (decRet.kind = "Ok" /\ from_utf8(decOut) = [ok |-> TRUE, chars |-> text])

\* C2: encode's output is the serialized tree (big-endian byte length of the
\* sorted symbol string, its UTF-8 bytes, one big-endian count per symbol), one
\* pad byte (8 - n mod 8) mod 8, then the n data bits and pad 1-bits packed
\* least-significant-bit first; the returned value is n.
Framing ==
    (pc # "start" /\ text # <<>>) =>
        LET syms == SortedSeq(Range(text))
            symBytes == as_bytes(syms)
            L == Len(symBytes)
            H == 4 + L + 4 * Len(syms)
            tree == from_counts(count_chars(text), syms, profile)
            data == encode_with_dictionary(text, build_dictionary(tree))
            n == Len(data)
            pad == (8 - (n % 8)) % 8
            payload == SubSeq(out, H + 2, Len(out))
        IN  /\ encRet = [kind |-> "Ok", value |-> n]
            /\ Len(out) = H + 1 + ((n + pad) \div 8)
            /\ SubSeq(out, 1, 4) = <<0, 0, L \div 256, L % 256>>
            /\ SubSeq(out, 5, 4 + L) = symBytes
            /\ \A k \in 1 .. Len(syms) :
                SubSeq(out, 4 + L + 4 * k - 3, 4 + L + 4 * k)
                    = <<0, 0, 0, Occurrences(text, syms[k])>>
            /\ out[H + 1] = pad
            /\ pad \in 0 .. 7
            /\ \A j \in 1 .. n : BitAt(payload, j) = data[j]
            /\ \A j \in n + 1 .. n + pad : BitAt(payload, j) = 1

FramingWitness ==
    /\ pc = "encoded"
    /\ text = Fixture
    /\ encRet = [kind |-> "Ok", value |-> 10]
    /\ out = <<0, 0, 0, 3, 97, 98, 99, 0, 0, 0, 4, 0, 0, 0, 2, 0, 0, 0, 1, 6, 80, 255>>

\* C4: a text of k >= 1 copies of one symbol decodes back to exactly k copies.
SingleSymbolRoundTrip ==
    (RoundTripRun /\ Cardinality(Range(text)) = 1) =>
        (decRet.kind = "Ok" /\ decOut = as_bytes(text))

\* C5: decode of a valid buffer whose last payload byte was removed returns an
\* error value: no abort, no success with another text.
TruncationRejected ==
    (pc = "decoded" /\ tamper = "truncated") => decRet.kind = "Err"

\* C6: decode never aborts: on every input it returns Ok or Err.
DecodeNeverAborts ==
    pc = "decoded" => decRet.kind \in {"Ok", "Err"}

\* C7: an empty table builds no tree, and encode of the empty text reports
\* that to its caller as an error, without aborting and without writing.
EmptyInputRecoverable ==
    (pc = "encoded" /\ text = <<>>) =>
        /\ from_counts(count_chars(text), <<>>, profile) = NoTree
        /\ encRet.kind = "Err"
        /\ out = <<>>

-----------------------------------------------------------------------------
(* Properties of tree construction, checked under SpecBuild *)

Built == pc = "built" /\ counts # <<>>

\* C3: from_counts yields the same tree whatever order the table's entries
\* are pushed in, and deserialize rebuilds from a serialized tree an equal tree.
Determinism ==
    Built =>
        /\ \A o \in Orders(DOMAIN counts) : from_counts(counts, o, profile) = result
        /\ result.kind = "Some" =>
            \A seed \in Seeds :
                deserialize(serialize(result), seed, profile)
                    = [kind |-> "Ok", tree |-> result, rest |-> <<>>]

DeterminismWitness ==
    /\ Built
    /\ result.kind = "Some"
    /\ Cardinality(DOMAIN counts) = 4
    /\ Cardinality(Range(counts)) = 1
    /\ result.root.left.kind = "Node"
    /\ result.root.right.kind = "Node"

\* C8: the codes derived from the built tree minimise the total encoded
\* length among all full binary trees over the table's symbols.
Optimality ==
    Built =>
        /\ result.kind = "Some"
        /\ Cost(counts, build_dictionary(result), DOMAIN counts)
               = MinCost(counts, DOMAIN counts, 0)

\* C9: the built tree has one leaf per table entry with its symbol and count,
\* every internal weight is the sum of its children's weights and the root
\* weight is the sum of all counts.
WeightConservation ==
    Built =>
        /\ result.kind = "Some"
        /\ LeafCount(result.root) = Cardinality(DOMAIN counts)
        /\ {l \in SubLinks(result.root) : l.kind = "Leaf"}
               = {Leaf(counts[c], c) : c \in DOMAIN counts}
        /\ \A l \in SubLinks(result.root) :
               l.kind = "Node" => l.weight = WAdd(l.left.weight, l.right.weight)
        /\ result.root.weight = WSum(counts, DOMAIN counts)

\* C10 (as stated): the new internal node's tie-break symbol is that of the
\* link extracted first, the smaller of the two.
TieBreakFromFirstExtracted ==
    last.kind = "Merge" => last.node.char = last.first.char

\* C10 (amended): the link extracted first is the smaller of the two and
\* becomes the right child; the new node's tie-break symbol is that of the
\* link extracted second, which becomes the left child.
TieBreakFromLeftChild ==
    last.kind = "Merge" =>
        /\ TupleCmp(last.first, last.second) = "Less"
        /\ last.node.right = last.first
        /\ last.node.left = last.second
        /\ last.node.char = last.second.char

TieBreakWitness ==
    /\ last.kind = "Merge"
    /\ last.first.kind = "Node"
    /\ last.second.kind = "Leaf"
    /\ last.first.weight = last.second.weight
    /\ last.node.char = last.second.char
    /\ last.node.char # last.first.char

====
